---- MODULE Spec2Model ----
(***************************************************************************)
(* A model of cobra/pickup/git.py: the Git class that clones, pulls,       *)
(* checks out, diffs and blames a repository by running the git command    *)
(* line tool and reading its output.                                       *)
(*                                                                         *)
(* Texts (Python str) are sequences of one-character strings, so that      *)
(* `in`, str.replace, str.split and the blame regular expression are       *)
(* computed character by character as Python computes them.                *)
(***************************************************************************)
EXTENDS Integers, Sequences, FiniteSets, TLC

VARIABLES
    \* ---- the process and the handle (specification Spec) ----
    isdir,          \* os.path.isdir(self.repo_directory)
    cwd,            \* the process's current working directory
    stack,          \* the Python call stack of the running operation
    procs,          \* external processes started by the current call, in order
    ret,            \* how the last public call ended
    call0,          \* the public call in progress (or last ended) and the state it began in
    repo_branch,    \* self.repo_branch
    repo_username,  \* self.repo_username
    repo_password,  \* self.repo_password
    \* ---- the pure functions, each under its own specification ----
    resolver,       \* Git.__init__: address -> author, name, directory
    classify,       \* Git.parse_err on one error stream
    scrub,          \* the credential scrubbing of clone() and pull()
    parser,         \* Git.__parse_diff_result on one diff output
    blame           \* the output parsing of Git.committer

opVars == <<isdir, cwd, stack, procs, ret, call0, repo_branch, repo_username, repo_password>>
pureVars == <<resolver, classify, scrub, parser, blame>>
vars == <<isdir, cwd, stack, procs, ret, call0, repo_branch, repo_username,
          repo_password, resolver, classify, scrub, parser, blame>>

(***************************************************************************)
(* Python values.                                                          *)
(***************************************************************************)
\* None: no text is equal to it.
NoneV == <<"None">>

Min(S) == CHOOSE x \in S : \A y \in S : x <= y
Max(S) == CHOOSE x \in S : \A y \in S : x >= y

\* s[i:] with i counted from 0.
From(s, i) == SubSeq(s, i + 1, Len(s))

\* The positions (from 1) at which sub occurs in s.
Occurrences(s, sub) ==
    {i \in 1..(Len(s) - Len(sub) + 1) : SubSeq(s, i, i + Len(sub) - 1) = sub}

\* sub in s
Contains(s, sub) == Occurrences(s, sub) # {}

\* s.replace(old, new) for a non-empty old: the occurrences are found from the
\* left, without overlap, in ONE pass; the result is not searched again.
RECURSIVE Replace(_, _, _)
Replace(s, old, new) ==
    IF Len(s) < Len(old) THEN s
    ELSE IF SubSeq(s, 1, Len(old)) = old
         THEN new \o Replace(From(s, Len(old)), old, new)
         ELSE <<Head(s)>> \o Replace(Tail(s), old, new)

\* s.split(sep) for a non-empty sep.
RECURSIVE Split(_, _)
Split(s, sep) ==
    IF ~Contains(s, sep) THEN <<s>>
    ELSE LET i == Min(Occurrences(s, sep))
         IN  <<SubSeq(s, 1, i - 1)>> \o Split(From(s, i - 1 + Len(sep)), sep)

\* '\n'.join(lines)
RECURSIVE Join(_, _)
Join(lines, sep) ==
    IF lines = <<>> THEN <<>>
    ELSE IF Len(lines) = 1 THEN lines[1]
    ELSE lines[1] \o sep \o Join(Tail(lines), sep)

\* '{0}'.format(x): None prints as the text None.
Format(x) == IF x = NoneV THEN <<"N","o","n","e">> ELSE x

(***************************************************************************)
(* The literals of git.py.                                                 *)
(***************************************************************************)
S_not_found == <<"n","o","t"," ","f","o","u","n","d">>
S_Not_found == <<"N","o","t"," ","f","o","u","n","d">>
S_already_exists == <<"a","l","r","e","a","d","y"," ","e","x","i","s","t","s">>
S_Authentication_failed ==
    <<"A","u","t","h","e","n","t","i","c","a","t","i","o","n"," ","f","a","i","l","e","d">>
S_did_not_match == <<"d","i","d"," ","n","o","t"," ","m","a","t","c","h">>
S_Updating == <<"U","p","d","a","t","i","n","g">>
S_up_to_date == <<"u","p","-","t","o","-","d","a","t","e">>
S_dot_git == <<".","g","i","t">>
MsgNoLocalRepo ==
    <<"N","o"," ","l","o","c","a","l"," ","r","e","p","o"," ","e","x","i","s","t","."," ",
      "P","l","e","a","s","e"," ","c","l","o","n","e"," ","f","i","r","s","t",".">>
MsgRepoNotExist ==
    <<"R","e","p","o"," ","d","o","e","s","n","'","t"," ","e","x","i","s","t">>
MsgAlreadyCloned ==
    <<"r","e","p","o"," ","h","a","s"," ","a","l","r","e","a","d","y"," ",
      "c","l","o","n","e","d",".">>

(***************************************************************************)
(* Git.parse_err: what it does with one error stream.  It raises           *)
(* NotExistError for both of its raising branches; AuthError is defined    *)
(* in the file and raised nowhere.                                         *)
(***************************************************************************)
parse_err(err) ==
    IF Contains(err, S_not_found) \/ Contains(err, S_Not_found)
    THEN [kind |-> "raise", exc |-> "NotExistError", val |-> MsgRepoNotExist]
    ELSE IF Contains(err, S_already_exists)
    THEN [kind |-> "return", exc |-> "none", val |-> <<FALSE, MsgAlreadyCloned>>]
    ELSE IF Contains(err, S_Authentication_failed)
    THEN [kind |-> "raise", exc |-> "NotExistError", val |-> S_Authentication_failed]
    ELSE [kind |-> "return", exc |-> "none", val |-> NoneV]

\* err.replace('{0}:{1}'.format(self.repo_username, self.repo_password), '')
ScrubErr(err, username, password) ==
    Replace(err, Format(username) \o <<":">> \o Format(password), <<>>)

(***************************************************************************)
(* Git.__parse_diff_result.  A dict is a function whose DOMAIN is its      *)
(* keys.  ParseStep is one turn of the loop over the lines; a Python       *)
(* exception ends the loop.                                                *)
(***************************************************************************)
Last(seq) == seq[Len(seq)]

\* x[0:3]
Prefix3(x) == SubSeq(x, 1, IF Len(x) < 3 THEN Len(x) ELSE 3)

\* result[key] = value
DictSet(d, key, value) ==
    [k \in (DOMAIN d) \cup {key} |-> IF k = key THEN value ELSE d[k]]

EmptyDict == [k \in {} |-> <<>>]

ParseStep(x, st) ==
    IF st.kind = "raise" THEN st
    ELSE IF x # <<>> /\ Prefix3(x) = <<"+","+","+">>
    THEN LET name == Last(Split(x, <<"/">>))
         IN  [st EXCEPT !.tmp_filename = name,
                        !.result = DictSet(st.result, name, <<>>)]
    ELSE IF x # <<>> /\ x[1] = "+"
    THEN IF From(x, 1) # <<>>
         THEN IF st.tmp_filename \in DOMAIN st.result
              THEN [st EXCEPT !.result =
                        DictSet(st.result, st.tmp_filename,
                                Append(st.result[st.tmp_filename], From(x, 1)))]
              ELSE [st EXCEPT !.kind = "raise", !.exc = "KeyError"]
         ELSE st
    ELSE st

ParseStart ==
    [kind |-> "return", exc |-> "none", tmp_filename |-> <<>>, result |-> EmptyDict]

RECURSIVE ParseLines(_, _)
ParseLines(lines, st) ==
    IF lines = <<>> THEN st ELSE ParseLines(Tail(lines), ParseStep(Head(lines), st))

parse_diff_result(content) == ParseLines(Split(content, <<"\n">>), ParseStart)

(***************************************************************************)
(* The regular expression of Git.committer (line 292) and                  *)
(* re.findall(...)[0].  The pattern is, in order: RevWidth characters      *)
(* other than a line break, one white-space character, an opening          *)
(* parenthesis, group 1 (any run of characters other than a line break,    *)
(* the longest that lets the rest match), one white-space character, and   *)
(* group 2, a timestamp dddd-dd-dd dd:dd:dd.  findall scans from the left, *)
(* so its first element is the leftmost match.                             *)
(***************************************************************************)
RevWidth == 8

IsDot(c) == c # "\n"
IsSpace(c) == c \in {" ", "\t", "\n", "\r", "\f"}
IsDigit(c) == c \in {"0","1","2","3","4","5","6","7","8","9"}

\* Group 2: four digits, -, two digits, -, two digits, white space, dd:dd:dd.
IsTimestamp(t) ==
    /\ Len(t) = 19
    /\ \A i \in {1,2,3,4,6,7,9,10,12,13,15,16,18,19} : IsDigit(t[i])
    /\ t[5] = "-" /\ t[8] = "-"
    /\ IsSpace(t[11])
    /\ t[14] = ":" /\ t[17] = ":"

\* The pattern matches s from position p with group 1 = s[p+RevWidth+2 .. e].
MatchAt(s, p, e) ==
    /\ p >= 1 /\ e >= p + RevWidth + 1 /\ e + 20 <= Len(s)
    /\ \A k \in p..(p + RevWidth - 1) : IsDot(s[k])
    /\ IsSpace(s[p + RevWidth])
    /\ s[p + RevWidth + 1] = "("
    /\ \A k \in (p + RevWidth + 2)..e : IsDot(s[k])
    /\ IsSpace(s[e + 1])
    /\ IsTimestamp(SubSeq(s, e + 2, e + 20))

MatchStarts(s) == {p \in 1..Len(s) : \E e \in 1..Len(s) : MatchAt(s, p, e)}

\* re.findall(pattern, s)[0], or IndexError when findall returns [].
FirstGroup(s) ==
    IF MatchStarts(s) = {}
    THEN [kind |-> "raise", exc |-> "IndexError", val |-> NoneV]
    ELSE LET p == Min(MatchStarts(s))
             e == Max({x \in 1..Len(s) : MatchAt(s, p, x)})
         IN  [kind |-> "return", exc |-> "none",
              val |-> <<TRUE, SubSeq(s, p + RevWidth + 2, e), SubSeq(s, e + 2, e + 20)>>]

\* Lines 291-295 of committer: what it does with the blame output.
committer_result(checkout_out) ==
    IF Len(checkout_out) # 0
    THEN FirstGroup(checkout_out)
    ELSE [kind |-> "return", exc |-> "none", val |-> <<FALSE, NoneV, NoneV>>]

(***************************************************************************)
(* The external tool's outputs the operations are run against.  Each is a  *)
(* text git can print; the code's own string tests decide what it means.   *)
(***************************************************************************)
T_Cloning == <<"C","l","o","n","i","n","g"," ","i","n","t","o"," ","'","n","'",".",".",".">>
T_access == <<"f","a","t","a","l",":"," ","'","h","t","t","p","s",":","/","/",
              "b",":","p","@","h","/","o","/","n",".","g","i","t","'">>
T_diff == <<"+","+","+"," ","b","/","a","\n","+","c">>
T_diff_headless == <<"+","c">>
T_blame_line ==
    <<"3","6","2","d","5","7","9","8"," ","(","w","u"," ","2","0","1","6","-","0","9","-",
      "1","0"," ","1","2",":","1","9",":","4","4"," ","+","0","8","0","0"," ","2","1",")",
      " ","x">>
T_blame_relative ==
    <<"3","6","2","d","5","7","9","8"," ","(","w","u"," ","3"," ","d","a","y","s"," ",
      "a","g","o"," ","2","1",")"," ","x">>

Branches == {"master", "dev"}
\* (username, password) of a handle: a public repository has neither.
Credentials == {<<NoneV, NoneV>>, <<(<<"b">>), (<<"p">>)>>}

PullOuts == {<<>>, S_Updating, S_up_to_date}
ErrStreams == {<<>>, S_not_found, S_already_exists, S_Authentication_failed, T_access}
\* git clone either creates the directory or fails and leaves none.
CloneOutcomes ==
    {[err |-> T_Cloning, created |-> TRUE]}
    \cup {[err |-> e, created |-> FALSE] : e \in ErrStreams \ {<<>>}}
CheckoutErrs == {<<>>, S_did_not_match}
DiffOuts == {<<>>, T_diff, T_diff_headless}
BlameOuts == {<<>>, T_blame_line, T_blame_relative}

(***************************************************************************)
(* The call stack.  A frame is one activation of a method; the last frame  *)
(* is the one running.  pc "tail" is a frame waiting at `return f(...)`.   *)
(***************************************************************************)
NewFrame(fn, arg) ==
    [fn |-> fn, pc |-> "start", arg |-> arg, current_dir |-> "none",
     err |-> NoneV, sub |-> <<>>]

Top == stack[Len(stack)]
At(fn, pc) == stack # <<>> /\ Top.fn = fn /\ Top.pc = pc
Front(seq) == SubSeq(seq, 1, Len(seq) - 1)

Pending == [kind |-> "pending", exc |-> "none", val |-> NoneV]

\* The frame on top returns v: a caller waiting at `return f(...)` returns v
\* in turn; clone, waiting for checkout, takes v and goes on.
RECURSIVE Unwind(_, _)
Unwind(stk, v) ==
    IF stk = <<>>
    THEN [stack |-> <<>>, ret |-> [kind |-> "return", exc |-> "none", val |-> v]]
    ELSE IF stk[Len(stk)].pc = "tail"
    THEN Unwind(Front(stk), v)
    ELSE [stack |-> [stk EXCEPT ![Len(stk)].pc = "after_checkout",
                                ![Len(stk)].sub = <<v>>],
          ret |-> Pending]

Return(v) ==
    /\ stack' = Unwind(Front(stack), v).stack
    /\ ret' = Unwind(Front(stack), v).ret

\* No method of git.py catches an exception: it leaves every frame at once.
Raise(exc, msg) ==
    /\ stack' = <<>>
    /\ ret' = [kind |-> "raise", exc |-> exc, val |-> msg]

\* `return self.f(...)`: the caller waits for f and returns what it returns.
TailCall(fn, arg) ==
    stack' = Append([stack EXCEPT ![Len(stack)].pc = "tail"], NewFrame(fn, arg))

\* subprocess.Popen(cmd, shell=True, ...): one more process, running.
Popen(cmd, branch) ==
    procs' = Append(procs, [cmd |-> cmd, branch |-> branch, running |-> TRUE])

\* p.communicate(): returns when the process has terminated.
CommunicateNoWait == procs' = procs
Communicate ==
    procs' = [procs EXCEPT ![Len(procs)].running = FALSE]

\* Git.__check_exist
check_exist_always == TRUE
check_exist == isdir

\* A public method is called on the handle (or, for committer, on the class).
Call(op, arg) ==
    /\ stack = <<>>
    /\ stack' = <<NewFrame(op, arg)>>
    /\ call0' = [op |-> op, arg |-> arg, isdir |-> isdir, cwd |-> cwd]
    /\ procs' = <<>>
    /\ ret' = Pending
    /\ UNCHANGED <<isdir, cwd, repo_branch, repo_username, repo_password, pureVars>>

CallPull == Call("pull", "none")
CallClone == Call("clone", "none")
CallGetRepo == Call("get_repo", "none")
CallCheckout == \E b \in Branches : Call("checkout", b)
CallDiff == \E raw_output \in {"raw", "parsed"} : Call("diff", raw_output)
\* path: a directory, the repository's when there is one, or no directory.
CallCommitter ==
    \E path \in {"other", "missing"} \cup (IF isdir THEN {"repo"} ELSE {}) :
        Call("committer", path)

handle == <<repo_branch, repo_username, repo_password>>

(***************************************************************************)
(* Git.pull (lines 89-118).                                                *)
(***************************************************************************)
\* 'git pull origin master'
PullBranch == "master"

PullNoRepo ==
    /\ At("pull", "start")
    /\ ~check_exist
    /\ Return(<<FALSE, MsgNoLocalRepo>>)
    /\ UNCHANGED <<isdir, cwd, procs, call0, handle, pureVars>>

\* os.chdir(repo_dir), then Popen.
PullPopen ==
    /\ At("pull", "start")
    /\ check_exist
    /\ cwd' = "repo"
    /\ Popen("pull", PullBranch)
    /\ stack' = [stack EXCEPT ![Len(stack)].pc = "communicate"]
    /\ UNCHANGED <<isdir, ret, call0, handle, pureVars>>

\* communicate, parse_err, the scrubbing, os.chdir(repo_dir) again, the result.
PullCommunicate ==
    /\ At("pull", "communicate")
    /\ Communicate
    /\ \E pull_out \in PullOuts, pull_err \in ErrStreams :
        IF parse_err(pull_err).kind = "raise"
        THEN /\ Raise(parse_err(pull_err).exc, parse_err(pull_err).val)
             /\ cwd' = cwd
        ELSE /\ cwd' = "repo"
             /\ IF Contains(pull_out, S_Updating) \/ Contains(pull_out, S_up_to_date)
                THEN Return(<<TRUE, NoneV>>)
                ELSE Return(<<FALSE, ScrubErr(pull_err, repo_username, repo_password)>>)
    /\ UNCHANGED <<isdir, call0, handle, pureVars>>

(***************************************************************************)
(* Git.clone (lines 120-157).                                              *)
(***************************************************************************)
\* ' -b master'
CloneBranch == "master"

CloneExists ==
    /\ At("clone", "start")
    /\ check_exist
    /\ TailCall("pull", "none")
    /\ UNCHANGED <<isdir, cwd, procs, ret, call0, handle, pureVars>>

ClonePopen ==
    /\ At("clone", "start")
    /\ ~check_exist
    /\ Popen("clone", CloneBranch)
    /\ stack' = [stack EXCEPT ![Len(stack)].pc = "communicate"]
    /\ UNCHANGED <<isdir, cwd, ret, call0, handle, pureVars>>

\* communicate, parse_err, the scrubbing, then self.checkout(self.repo_branch).
CloneCommunicate ==
    /\ At("clone", "communicate")
    /\ Communicate
    /\ \E o \in CloneOutcomes :
        /\ isdir' = (isdir \/ o.created)
        /\ IF parse_err(o.err).kind = "raise"
           THEN Raise(parse_err(o.err).exc, parse_err(o.err).val)
           ELSE /\ stack' = Append(
                       [stack EXCEPT ![Len(stack)].pc = "checkout",
                                     ![Len(stack)].err =
                                         ScrubErr(o.err, repo_username, repo_password)],
                       NewFrame("checkout", repo_branch))
                /\ ret' = ret
    /\ UNCHANGED <<cwd, call0, handle, pureVars>>

CloneReturn ==
    /\ At("clone", "after_checkout")
    /\ IF Top.sub = <<TRUE>>
       THEN Return(<<TRUE, NoneV>>)
       ELSE Return(<<FALSE, Top.err>>)
    /\ UNCHANGED <<isdir, cwd, procs, call0, handle, pureVars>>

(***************************************************************************)
(* Git.get_repo (lines 251-262).                                           *)
(***************************************************************************)
GetRepoSwapped ==
    /\ At("get_repo", "start")
    /\ IF check_exist THEN TailCall("clone", "none") ELSE TailCall("pull", "none")
    /\ UNCHANGED <<isdir, cwd, procs, ret, call0, handle, pureVars>>

GetRepo ==
    /\ At("get_repo", "start")
    /\ IF check_exist THEN TailCall("pull", "none") ELSE TailCall("clone", "none")
    /\ UNCHANGED <<isdir, cwd, procs, ret, call0, handle, pureVars>>

(***************************************************************************)
(* Git.checkout (lines 189-216).                                           *)
(***************************************************************************)
CheckoutNoRepo ==
    /\ At("checkout", "start")
    /\ ~check_exist
    /\ Return(FALSE)
    /\ UNCHANGED <<isdir, cwd, procs, call0, handle, pureVars>>

\* current_dir = os.getcwd(); os.chdir(self.repo_directory); Popen.
CheckoutPopen ==
    /\ At("checkout", "start")
    /\ check_exist
    /\ cwd' = "repo"
    /\ Popen("checkout", Top.arg)
    /\ stack' = [stack EXCEPT ![Len(stack)].pc = "communicate",
                              ![Len(stack)].current_dir = cwd]
    /\ UNCHANGED <<isdir, ret, call0, handle, pureVars>>

CheckoutCommunicate ==
    /\ At("checkout", "communicate")
    /\ Communicate
    /\ cwd' = Top.current_dir
    /\ \E checkout_err \in CheckoutErrs :
        Return(~Contains(checkout_err, S_did_not_match))
    /\ UNCHANGED <<isdir, call0, handle, pureVars>>

(***************************************************************************)
(* Git.diff (lines 159-187).                                               *)
(***************************************************************************)
DiffNoRepo ==
    /\ At("diff", "start")
    /\ ~check_exist
    /\ Return(FALSE)
    /\ UNCHANGED <<isdir, cwd, procs, call0, handle, pureVars>>

\* current_dir = os.getcwd() + os.sep; repo_dir = current_dir + self.repo_directory;
\* os.chdir(repo_dir).  repo_directory is joined from home_path, which is read from
\* the configuration: whether the working directory followed by it names a
\* directory is the environment's, and os.chdir raises OSError when it does not.
DiffChdir ==
    /\ At("diff", "start")
    /\ check_exist
    /\ \/ /\ cwd' = "repo"
          /\ Popen("diff", "none")
          /\ stack' = [stack EXCEPT ![Len(stack)].pc = "communicate",
                                    ![Len(stack)].current_dir = cwd]
          /\ ret' = ret
       \/ /\ Raise("OSError", NoneV)
          /\ UNCHANGED <<cwd, procs>>
    /\ UNCHANGED <<isdir, call0, handle, pureVars>>

DiffCommunicate ==
    /\ At("diff", "communicate")
    /\ Communicate
    /\ cwd' = Top.current_dir
    /\ \E diff_out \in DiffOuts :
        IF Top.arg = "raw"
        THEN Return(diff_out)
        ELSE IF parse_diff_result(diff_out).kind = "raise"
        THEN Raise(parse_diff_result(diff_out).exc, NoneV)
        ELSE Return(parse_diff_result(diff_out).result)
    /\ UNCHANGED <<isdir, call0, handle, pureVars>>

(***************************************************************************)
(* Git.committer (lines 273-295).                                          *)
(***************************************************************************)
\* os.chdir(path), which raises OSError for a path that is no directory; Popen.
CommitterChdir ==
    /\ At("committer", "start")
    /\ IF Top.arg = "missing"
       THEN /\ Raise("OSError", NoneV)
            /\ UNCHANGED <<cwd, procs>>
       ELSE /\ cwd' = Top.arg
            /\ Popen("blame", "none")
            /\ stack' = [stack EXCEPT ![Len(stack)].pc = "communicate"]
            /\ ret' = ret
    /\ UNCHANGED <<isdir, call0, handle, pureVars>>

CommitterCommunicate ==
    /\ At("committer", "communicate")
    /\ Communicate
    /\ \E checkout_out \in BlameOuts :
        IF committer_result(checkout_out).kind = "raise"
        THEN Raise(committer_result(checkout_out).exc, NoneV)
        ELSE Return(committer_result(checkout_out).val)
    /\ UNCHANGED <<isdir, cwd, call0, handle, pureVars>>

(***************************************************************************)
(* The specification of the operations: a handle is constructed, and its   *)
(* caller invokes public methods one after the other.                      *)
(***************************************************************************)
Idle == [done |-> TRUE]

Init ==
    /\ isdir \in BOOLEAN
    /\ cwd = "start"
    /\ stack = <<>>
    /\ procs = <<>>
    /\ ret = [kind |-> "none", exc |-> "none", val |-> NoneV]
    /\ call0 = [op |-> "none", arg |-> "none", isdir |-> isdir, cwd |-> "start"]
    /\ repo_branch \in Branches
    /\ \E c \in Credentials : repo_username = c[1] /\ repo_password = c[2]
    /\ resolver = Idle /\ classify = Idle /\ scrub = Idle
    /\ parser = Idle /\ blame = Idle

Next ==
    \/ CallPull \/ CallClone \/ CallGetRepo \/ CallCheckout \/ CallDiff \/ CallCommitter
    \/ PullNoRepo \/ PullPopen \/ PullCommunicate
    \/ CloneExists \/ ClonePopen \/ CloneCommunicate \/ CloneReturn
    \/ GetRepo
    \/ CheckoutNoRepo \/ CheckoutPopen \/ CheckoutCommunicate
    \/ DiffNoRepo \/ DiffChdir \/ DiffCommunicate
    \/ CommitterChdir \/ CommitterCommunicate

Spec == Init /\ [][Next]_vars

(***************************************************************************)
(* Properties of the operations, checked under Spec.                       *)
(***************************************************************************)
Ended == stack = <<>> /\ ret.kind \in {"return", "raise"}
Count(cmd) == Cardinality({i \in 1..Len(procs) : procs[i].cmd = cmd})

\* C1: every operation ends, on every exit path, in the working directory it
\* began in; hence whenever no operation is running the working directory is
\* the initial one.
WorkingDirectoryRestored ==
    /\ Ended => cwd = call0.cwd
    /\ stack = <<>> => cwd = "start"

\* C2: one call of get_repo runs a clone and no pull when the local copy was
\* missing at the call, a pull and no clone when it was there: never both, and
\* by the time it ends never neither.
GetRepoOneSync ==
    call0.op = "get_repo" =>
        /\ Count("clone") + Count("pull") <= 1
        /\ call0.isdir => Count("clone") = 0
        /\ ~call0.isdir => Count("pull") = 0
        /\ Ended => Count("clone") + Count("pull") = 1

GetRepoCloned ==
    /\ call0.op = "get_repo" /\ ~call0.isdir /\ Ended
    /\ Count("clone") = 1 /\ Count("pull") = 0

\* C7: with no local copy at the call, pull, checkout and diff start no
\* process, leave the working directory alone, raise nothing and return failure.
MissingCopyFails ==
    (call0.op \in {"pull", "checkout", "diff"} /\ ~call0.isdir) =>
        /\ procs = <<>>
        /\ cwd = call0.cwd
        /\ ret.kind # "raise"
        /\ Ended => IF call0.op = "pull" THEN ret.val[1] = FALSE ELSE ret.val = FALSE

MissingCopyCheckout ==
    /\ call0.op = "checkout" /\ ~call0.isdir /\ Ended
    /\ ret.kind = "return" /\ procs = <<>>

\* C9 as stated: a call starts one external process and never a second.
OneProcessPerCall == Len(procs) <= 1

\* C9 amended: the processes of a call run one at a time, each waited for by
\* the frame that started it; pull, checkout, diff and committer start at most
\* one, clone and get_repo at most two, and the second is the checkout that
\* follows the terminated clone.
ProcessesOneAtATime ==
    /\ Len(procs) <= 2
    /\ \A i \in 1..Len(procs) :
          procs[i].running => (i = Len(procs) /\ stack # <<>> /\ Top.pc = "communicate")
    /\ call0.op \in {"pull", "checkout", "diff", "committer"} => Len(procs) <= 1
    /\ Len(procs) = 2 => procs[1].cmd = "clone" /\ procs[2].cmd = "checkout"
    /\ (Ended /\ ret.kind = "return" /\ call0.op \in {"pull", "checkout", "diff"}
          /\ call0.isdir) => Len(procs) = 1

CloneThenCheckoutEnded ==
    /\ Ended /\ Len(procs) = 2
    /\ procs[1].cmd = "clone" /\ procs[2].cmd = "checkout"

\* C10: a clone on a missing local copy is run on the handle's configured
\* branch, and the switch to that branch starts only once the clone has
\* terminated.
CloneOnConfiguredBranch ==
    \A i \in 1..Len(procs) :
        /\ procs[i].cmd = "clone" => procs[i].branch = repo_branch
        /\ (procs[i].cmd = "checkout" /\ call0.op \in {"clone", "get_repo"}) =>
              /\ procs[i].branch = repo_branch
              /\ i > 1 /\ procs[i - 1].cmd = "clone" /\ ~procs[i - 1].running

(***************************************************************************)
(* The pure functions.  Each has a specification of its own, whose Init    *)
(* draws the inputs and whose actions apply the function; the operations'  *)
(* variables stand still in it.                                            *)
(***************************************************************************)
OpsAtRest ==
    /\ isdir = FALSE
    /\ cwd = "start"
    /\ stack = <<>>
    /\ procs = <<>>
    /\ ret = [kind |-> "none", exc |-> "none", val |-> NoneV]
    /\ call0 = [op |-> "none", arg |-> "none", isdir |-> FALSE, cwd |-> "start"]
    /\ repo_branch = "master"
    /\ repo_username = NoneV
    /\ repo_password = NoneV

\* Every text of at most n characters of A.
RECURSIVE Texts(_, _)
Texts(A, n) ==
    IF n = 0 THEN {<<>>}
    ELSE LET T == Texts(A, n - 1) IN T \cup {Append(t, c) : t \in T, c \in A}

\* Every text made of at most n of the fragments F, one after the other.
RECURSIVE Concats(_, _)
Concats(F, n) ==
    IF n = 0 THEN {<<>>}
    ELSE LET T == Concats(F, n - 1) IN T \cup {t \o f : t \in T, f \in F}

(***************************************************************************)
(* Git.__init__ (lines 71-87): owner, name and directory of an address.    *)
(***************************************************************************)
MaxNameLen == 5
NameAlphabet == {".", "g", "i", "t", "a"}
Owners == {<<"o">>, <<"o","w">>}
AddressPrefix == <<"h","t","t","p","s",":","/","/","h","/">>
\* os.path.join(home_path, 'versions')
upload_directory == <<"/","c","/","v">>

\* os.path.join(a, b)
path_join(a, b) ==
    IF b # <<>> /\ b[1] = "/" THEN b
    ELSE IF a = <<>> \/ a[Len(a)] = "/" THEN a \o b
    ELSE a \o <<"/">> \o b

\* .replace('.git', '') takes out every occurrence of .git, wherever it is.
repo_name_of(repo_address) == Replace(Last(Split(repo_address, <<"/">>)), S_dot_git, <<>>)
repo_user_of(repo_address) ==
    LET parts == Split(repo_address, <<"/">>) IN parts[Len(parts) - 1]

ResolveInit ==
    /\ OpsAtRest
    /\ \E owner \in Owners, name \in Texts(NameAlphabet, MaxNameLen) \ {<<>>},
          branch \in Branches, c \in Credentials :
          resolver = [done |-> FALSE, owner |-> owner, name |-> name,
                      repo_address |-> AddressPrefix \o owner \o <<"/">> \o name \o S_dot_git,
                      repo_branch |-> branch, repo_username |-> c[1],
                      repo_password |-> c[2],
                      repo_author |-> NoneV, repo_name |-> NoneV,
                      repo_directory |-> NoneV]
    /\ classify = Idle /\ scrub = Idle /\ parser = Idle /\ blame = Idle

GitInit ==
    /\ ~resolver.done
    /\ resolver' =
          [resolver EXCEPT
              !.done = TRUE,
              !.repo_author = repo_user_of(resolver.repo_address),
              !.repo_name = repo_name_of(resolver.repo_address),
              !.repo_directory =
                  path_join(path_join(upload_directory,
                                      repo_user_of(resolver.repo_address)),
                            repo_name_of(resolver.repo_address))]
    /\ UNCHANGED <<opVars, classify, scrub, parser, blame>>

SpecResolve == ResolveInit /\ [][GitInit]_vars

\* C6: for an address scheme://host/owner/name.git the handle's author is
\* owner, its name is name (only the trailing .git taken off, any other .git
\* kept), and its directory is storageRoot/owner/name.
ResolverYieldsOwnerAndName ==
    resolver.done =>
        /\ resolver.repo_author = resolver.owner
        /\ resolver.repo_name = resolver.name
        /\ resolver.repo_directory =
              upload_directory \o <<"/">> \o resolver.owner \o <<"/">> \o resolver.name

\* Not a claim: on names that hold no .git the resolver is as C6 says.
ResolverOnPlainNames ==
    (resolver.done /\ ~Contains(resolver.name, S_dot_git)) =>
        /\ resolver.repo_author = resolver.owner
        /\ resolver.repo_name = resolver.name
        /\ resolver.repo_directory =
              upload_directory \o <<"/">> \o resolver.owner \o <<"/">> \o resolver.name

(***************************************************************************)
(* Git.parse_err (lines 264-271) on the error streams git can be made to   *)
(* print: its markers, in the cases it tests and in capitals, and other    *)
(* text, one after the other.                                              *)
(***************************************************************************)
MaxFragments == 2
S_NOT_FOUND == <<"N","O","T"," ","F","O","U","N","D">>
S_Not_Found == <<"N","o","t"," ","F","o","u","n","d">>
S_fatal == <<"f","a","t","a","l",":"," ">>
ErrFragments ==
    {S_not_found, S_Not_found, S_Not_Found, S_NOT_FOUND, S_already_exists,
     S_Authentication_failed, S_fatal}

ClassifyInit ==
    /\ OpsAtRest
    /\ \E err \in Concats(ErrFragments, MaxFragments) :
          classify = [done |-> FALSE, err |-> err, outcome |-> NoneV]
    /\ resolver = Idle /\ scrub = Idle /\ parser = Idle /\ blame = Idle

ParseErr ==
    /\ ~classify.done
    /\ classify' = [classify EXCEPT !.done = TRUE, !.outcome = parse_err(classify.err)]
    /\ UNCHANGED <<opVars, resolver, scrub, parser, blame>>

SpecClassify == ClassifyInit /\ [][ParseErr]_vars

\* str.lower() on the letters of the streams.
Lower(c) ==
    CASE c = "N" -> "n" [] c = "O" -> "o" [] c = "T" -> "t" [] c = "F" -> "f"
      [] c = "U" -> "u" [] c = "D" -> "d" [] c = "A" -> "a" [] OTHER -> c
LowerText(s) == [i \in 1..Len(s) |-> Lower(s[i])]

\* C4: a stream with Authentication failed yields AuthError; one with
\* not found, in any letter case, yields NotExistError; one with already
\* exists yields the already-cloned signal, returned and not raised.
ErrorsClassified ==
    classify.done =>
        /\ Contains(classify.err, S_Authentication_failed) =>
              (classify.outcome.kind = "raise" /\ classify.outcome.exc = "AuthError")
        /\ Contains(LowerText(classify.err), S_not_found) =>
              (classify.outcome.kind = "raise" /\ classify.outcome.exc = "NotExistError")
        /\ Contains(classify.err, S_already_exists) =>
              (classify.outcome.kind = "return"
                  /\ classify.outcome.val = <<FALSE, MsgAlreadyCloned>>)

(***************************************************************************)
(* The diagnostic clone() and pull() hand back (lines 107-118, 148-157):   *)
(* parse_err, then the credential pair taken out of the error stream.      *)
(***************************************************************************)
MaxCredLen == 1
MaxErrLen == 6
CredAlphabet == {"b", "p"}
ErrAlphabet == {"b", "p", ":"}

ScrubInit ==
    /\ OpsAtRest
    /\ \E u \in Texts(CredAlphabet, MaxCredLen) \ {<<>>},
          pw \in Texts(CredAlphabet, MaxCredLen) \ {<<>>},
          err \in Texts(ErrAlphabet, MaxErrLen) :
          scrub = [done |-> FALSE, repo_username |-> u, repo_password |-> pw,
                   err |-> err, from |-> "none", message |-> NoneV]
    /\ resolver = Idle /\ classify = Idle /\ parser = Idle /\ blame = Idle

\* The message of the exception parse_err raises, or else the scrubbed stream.
Diagnostic(err, username, password) ==
    IF parse_err(err).kind = "raise"
    THEN parse_err(err).val
    ELSE ScrubErr(err, username, password)

\* clone() fails: `return False, clone_err`.
CloneDiagnostic ==
    /\ ~scrub.done
    /\ scrub' = [scrub EXCEPT
                    !.done = TRUE, !.from = "clone",
                    !.message = Diagnostic(scrub.err, scrub.repo_username,
                                           scrub.repo_password)]
    /\ UNCHANGED <<opVars, resolver, classify, parser, blame>>

\* pull() fails: `return False, pull_err`.
PullDiagnostic ==
    /\ ~scrub.done
    /\ scrub' = [scrub EXCEPT
                    !.done = TRUE, !.from = "pull",
                    !.message = Diagnostic(scrub.err, scrub.repo_username,
                                           scrub.repo_password)]
    /\ UNCHANGED <<opVars, resolver, classify, parser, blame>>

SpecScrub == ScrubInit /\ [][CloneDiagnostic \/ PullDiagnostic]_vars

\* C3: whatever the username, the secret and the error stream, the diagnostic
\* handed back holds no username:secret.
CredentialsScrubbed ==
    scrub.done =>
        ~Contains(scrub.message, scrub.repo_username \o <<":">> \o scrub.repo_password)

(***************************************************************************)
(* Git.__parse_diff_result (lines 229-249), one line of the output at a    *)
(* time.                                                                   *)
(***************************************************************************)
MaxLines == 3
DiffLines ==
    { <<>>, <<"+">>, <<"+","+">>, <<"+","+","+">>, <<"+","c">>, <<"-","c">>, <<"c">>,
      <<"+","+","+","/","a">>, <<"+","+","+"," ","b","/","a">>, <<"+","+","+","a","/">> }
\* The example of the method's documentation, with a removed line.
ExampleLines ==
    << <<"+","+","+"," ","b","/","a","a",".","t","x","t">>, <<"+","c","c","c","c","c">>,
       <<"+","d","d","d","d","d">>,
       <<"+","+","+"," ","b","/","b","b",".","t","x","t">>,
       <<"+","h","h","h","h","h","h","h">>, <<"-","r","e","m","o","v","e","d">> >>

RECURSIVE LineSeqs(_)
LineSeqs(n) ==
    IF n = 0 THEN {<<>>}
    ELSE LET T == LineSeqs(n - 1) IN T \cup {Append(t, x) : t \in T, x \in DiffLines}

ParserInit ==
    /\ OpsAtRest
    /\ \E lines \in LineSeqs(MaxLines) \cup {ExampleLines} :
          parser = [done |-> FALSE, pc |-> "split", given |-> lines,
                    content |-> Join(lines, <<"\n">>), todo |-> <<>>, st |-> ParseStart]
    /\ resolver = Idle /\ classify = Idle /\ scrub = Idle /\ blame = Idle

\* result = {}; content = content.split('\n'); tmp_filename = ''
ParseSplit ==
    /\ ~parser.done /\ parser.pc = "split"
    /\ parser' = [parser EXCEPT !.pc = "loop",
                                !.todo = Split(parser.content, <<"\n">>)]
    /\ UNCHANGED <<opVars, resolver, classify, scrub, blame>>

\* One turn of `for x in content`.
ParseLoop ==
    /\ ~parser.done /\ parser.pc = "loop" /\ parser.todo # <<>>
    /\ LET st == ParseStep(Head(parser.todo), parser.st)
       IN  parser' = [parser EXCEPT !.st = st, !.todo = Tail(parser.todo),
                                    !.done = (st.kind = "raise")]
    /\ UNCHANGED <<opVars, resolver, classify, scrub, blame>>

\* return result
ParseReturn ==
    /\ ~parser.done /\ parser.pc = "loop" /\ parser.todo = <<>>
    /\ parser' = [parser EXCEPT !.done = TRUE]
    /\ UNCHANGED <<opVars, resolver, classify, scrub, blame>>

SpecDiff == ParserInit /\ [][ParseSplit \/ ParseLoop \/ ParseReturn]_vars

\* What C5 says the mapping is, read off the lines.
IsHeader(x) == Len(x) >= 3 /\ SubSeq(x, 1, 3) = <<"+","+","+">>
IsAdded(x) == Len(x) >= 2 /\ x[1] = "+" /\ ~IsHeader(x)
KeyOf(x) ==
    LET slashes == {i \in 1..Len(x) : x[i] = "/"}
    IN  IF slashes = {} THEN x ELSE From(x, Max(slashes))
Headers(lines) == {j \in 1..Len(lines) : IsHeader(lines[j])}
Remainders(lines) == [i \in 1..Len(lines) |-> Tail(lines[i])]
AddedAfter(lines, j) ==
    LET next == Min({h \in Headers(lines) : h > j} \cup {Len(lines) + 1})
    IN  Remainders(SelectSeq(SubSeq(lines, j + 1, next - 1), IsAdded))
Expected(lines) ==
    [k \in {KeyOf(lines[j]) : j \in Headers(lines)} |->
        AddedAfter(lines, Max({j \in Headers(lines) : KeyOf(lines[j]) = k}))]

\* C5: for every sequence of output lines the parser returns the mapping from
\* each +++ line's last /-segment to the non-empty remainders of the + lines
\* that follow its latest +++ line, up to the next +++ line.
DiffParsed ==
    parser.done =>
        /\ parser.st.kind = "return"
        /\ parser.st.result = Expected(parser.given)

\* Not a claim: the same with no + line before the first +++ line.
DiffParsedAfterHeader ==
    (parser.done /\ parser.st.kind = "return") =>
        parser.st.result = Expected(parser.given)

\* Not a claim: the documented example.
DiffExample ==
    (parser.done /\ parser.given = ExampleLines) =>
        /\ parser.st.kind = "return"
        /\ DOMAIN parser.st.result = {<<"a","a",".","t","x","t">>, <<"b","b",".","t","x","t">>}
        /\ parser.st.result[<<"a","a",".","t","x","t">>] =
              << <<"c","c","c","c","c">>, <<"d","d","d","d","d">> >>
        /\ parser.st.result[<<"b","b",".","t","x","t">>] = << <<"h","h","h","h","h","h","h">> >>

(***************************************************************************)
(* Git.committer's reading of the blame output (lines 291-295).            *)
(***************************************************************************)
MaxTokens == 4
BlameTokens ==
    { <<"3","6","2","d","5","7","9","8"," ","(">>, <<"w","u">>, <<" ">>,
      <<"2","0","1","6","-","0","9","-","1","0"," ","1","2",":","1","9",":","4","4">>,
      <<"\n">>, <<"3"," ","d","a","y","s"," ","a","g","o">> }

BlameInit ==
    /\ OpsAtRest
    /\ \E out \in Concats(BlameTokens, MaxTokens) :
          blame = [done |-> FALSE, checkout_out |-> out, outcome |-> NoneV]
    /\ resolver = Idle /\ classify = Idle /\ scrub = Idle /\ parser = Idle

CommitterParse ==
    /\ ~blame.done
    /\ blame' = [blame EXCEPT !.done = TRUE,
                              !.outcome = committer_result(blame.checkout_out)]
    /\ UNCHANGED <<opVars, resolver, classify, scrub, parser>>

SpecBlame == BlameInit /\ [][CommitterParse]_vars

\* C8: whatever the blame output, committer returns a result: (False, None,
\* None) for no output, and otherwise (True, author, timestamp) with the
\* timestamp in the form dddd-dd-dd dd:dd:dd, both present.
CommitterReturnsResult ==
    blame.done =>
        /\ blame.outcome.kind = "return"
        /\ blame.checkout_out = <<>> => blame.outcome.val = <<FALSE, NoneV, NoneV>>
        /\ blame.checkout_out # <<>> =>
              /\ blame.outcome.val[1] = TRUE
              /\ blame.outcome.val[2] # NoneV
              /\ IsTimestamp(blame.outcome.val[3])

====
